---- MODULE Spec2Model ----
(***************************************************************************)
(* QBox backend: the Room store (models/Room.js), the room routes          *)
(* (routes/rooms.js) and the handlers' interleaving at their await points. *)
(* Every action is one handler segment: the effect of the store operation  *)
(* the handler awaits, followed by the synchronous code up to the next     *)
(* await (or the response).                                                *)
(*                                                                         *)
(* Strings the code inspects character by character (room codes, names)    *)
(* are sequences of one-character strings.  Dates are milliseconds.        *)
(* Room fields that no handler of routes/rooms.js reads or writes after    *)
(* the insert (createdAt, questionCount) are left out.                     *)
(*                                                                         *)
(* The question routes and the socket gateway follow the specification     *)
(* (sections 4.3 and 4.4) and the README's tables.  They have their own    *)
(* specifications: SpecQuestions and SpecListing for the questions,        *)
(* SpecGateway and SpecFanout for the gateway.  SpecQuestions and          *)
(* SpecFanout start from the store TwoRooms, a state Spec reaches.         *)
(***************************************************************************)
EXTENDS Integers, Sequences, FiniteSets, TLC

VARIABLES
    rooms,       \* the Room collection: _id -> document
    nextRoomId,  \* the next _id the store assigns
    questions,   \* the Question collection: _id -> document
    nextQid,     \* the next Question _id
    now,         \* Date.now()
    req,         \* the requests in flight: slot -> handler position and locals
    sent,        \* the response this step sends, with the request it answers
    started,     \* how many requests have been accepted so far
    deletedOk,   \* history: rooms whose DELETE answered 200
    listed,      \* the list the last GET /room/:roomId answered
    subs,        \* socket rooms: room code -> the connections subscribed
    flight,      \* events emitted to a connection and not yet received
    inbox,       \* connection -> the events it has received, in order
    published,   \* history: the events published, each with its audience
    verificationCodes, \* the Map of routes/auth.js: email -> entry
    accounts,    \* the User collection: email -> password
    areq,        \* the auth requests in flight: slot -> position and locals
    resetsDone   \* history: email -> successful resets since its code was stored

fanout == <<subs, flight, inbox, published>>

auth == <<verificationCodes, accounts, areq, resetsDone>>

vars == <<rooms, nextRoomId, questions, nextQid, now, req, sent, started, deletedOk,
          listed, fanout, auth>>

-----------------------------------------------------------------------------
(* Bounds *)

MaxRooms == 2

MaxQuestions == 1

MaxStudents == 2

MaxOps == 3

NumDraws == 2

MaxTicks == 1

MaxEvents == 3

MaxListed == 3

MaxAuthOps == 4

MaxAuthTicks == 2

Slots == {1, 2}

Users == {"u1", "u2"}

\* the voter tokens of the students
Tokens == {"t1", "t2"}

\* the socket connections
Connections == {"c1", "c2"}

-----------------------------------------------------------------------------
(* Values *)

Null == "null"

NoDate == 0 - 1

OneHourMs == 60 * 60 * 1000

TickMs == OneHourMs + 1

MaxNow == MaxTicks * TickMs

characters ==
    << "A", "B", "C", "D", "E", "F", "G", "H", "I", "J", "K", "L", "M",
       "N", "O", "P", "Q", "R", "S", "T", "U", "V", "W", "X", "Y", "Z",
       "0", "1", "2", "3", "4", "5", "6", "7", "8", "9" >>

LowerCase ==
    << "a", "b", "c", "d", "e", "f", "g", "h", "i", "j", "k", "l", "m",
       "n", "o", "p", "q", "r", "s", "t", "u", "v", "w", "x", "y", "z" >>

\* String.prototype.charAt with a 0-based index
charAt(s, i) == s[i + 1]

\* String.prototype.toUpperCase on one character
UpperChar(c) ==
    IF \E i \in 1..Len(LowerCase) : LowerCase[i] = c
    THEN characters[CHOOSE i \in 1..Len(LowerCase) : LowerCase[i] = c]
    ELSE c

\* the string as it was typed
AsTyped(s) == s

toUpperCase(s) == [i \in 1..Len(s) |-> UpperChar(s[i])]

IsSpace(c) == c = " "

RECURSIVE TrimLeft(_)
TrimLeft(s) ==
    IF s # <<>> /\ IsSpace(Head(s)) THEN TrimLeft(Tail(s)) ELSE s

RECURSIVE TrimRight(_)
TrimRight(s) ==
    IF s # <<>> /\ IsSpace(s[Len(s)]) THEN TrimRight(SubSeq(s, 1, Len(s) - 1)) ELSE s

\* String.prototype.trim
trim(s) == TrimRight(TrimLeft(s))

\* the outcomes of the six Math.floor(Math.random() * 36) calls of one pass
DrawOf(k) == [i \in 1..6 |-> (11 * k + 7 * i) % Len(characters)]

RandomDraws == {DrawOf(k) : k \in 1..NumDraws}

\* the loop that stops after five characters
ShortCode(d) == [i \in 1..5 |-> charAt(characters, d[i])]

\* the loop body of generateRoomCode: six charAt calls appended to ''
CodeOfDraw(d) == [i \in 1..6 |-> charAt(characters, d[i])]

DrawnCodes == {CodeOfDraw(d) : d \in RandomDraws}

ToLowerChar(c) ==
    IF \E i \in 1..Len(LowerCase) : characters[i] = c
    THEN LowerCase[CHOOSE i \in 1..Len(LowerCase) : characters[i] = c]
    ELSE c

ToLower(s) == [i \in 1..Len(s) |-> ToLowerChar(s[i])]

\* request bodies (questionsVisible is left out of the body: no handler but
\* the toggle reads the stored flag, and the toggle flips either value)
RoomNameInputs == { <<>>, <<"A">>, <<" ", "A", " ">>, <<"a">>, <<" ">> }

LecturerNameInputs == { <<>>, <<" ">>, <<" ", "L">> }

VisibleInputs == {"undefined"}

RoomCodeInputs == {<<>>} \cup DrawnCodes \cup {ToLower(c) : c \in DrawnCodes}

RoomIdInputs == 1..MaxRooms

UserName(u) == IF u = "u1" THEN <<"U", "1">> ELSE <<"U", "2">>

-----------------------------------------------------------------------------
(* Documents, requests and responses *)

\* a Room document whose isOneTime is left at its default
NewRoomDefaultFlag(roomName, roomCode, lecturer, lecturerName, questionsVisible, isOneTime, expiresAt) ==
    [ roomName         |-> trim(roomName),
      roomCode         |-> toUpperCase(roomCode),
      lecturer         |-> lecturer,
      lecturerName     |-> lecturerName,
      questionsVisible |-> questionsVisible,
      isOneTime        |-> FALSE,
      expiresAt        |-> expiresAt,
      status           |-> "active",
      studentsCount    |-> 0,
      closedAt         |-> NoDate ]

\* a Room document with the schema defaults applied
NewRoom(roomName, roomCode, lecturer, lecturerName, questionsVisible, isOneTime, expiresAt) ==
    [ roomName         |-> trim(roomName),      \* schema setter trim: true
      roomCode         |-> toUpperCase(roomCode), \* schema setter uppercase: true
      lecturer         |-> lecturer,
      lecturerName     |-> lecturerName,
      questionsVisible |-> questionsVisible,
      isOneTime        |-> isOneTime,
      expiresAt        |-> expiresAt,
      status           |-> "active",
      studentsCount    |-> 0,
      closedAt         |-> NoDate ]

NoDoc == NewRoom(<<>>, <<>>, Null, <<>>, TRUE, FALSE, NoDate)

Response(status, message, error) ==
    [status |-> status, message |-> message, error |-> error]

NoResp == Response(0, "", "")

Idle == [pc |-> "idle", op |-> "", user |-> Null, id |-> 0, doc |-> NoDoc]

NothingSent == [op |-> "", user |-> Null, id |-> 0, doc |-> NoDoc, resp |-> NoResp]

\* res.status(..).json(..): the handler ends and its slot is free again.
\* sent holds the response for the step that sends it, together with the
\* request it answers (its handler, caller, room id and, in doc, the room
\* data of the body or else the name or code the request asked for).
Reply(r, op, user, id, doc, resp) ==
    /\ req' = [req EXCEPT ![r] = Idle]
    /\ sent' = [op |-> op, user |-> user, id |-> id, doc |-> doc, resp |-> resp]

\* the handler goes on to its next await
Await(r, pc, op, user, id, doc) ==
    /\ req' = [req EXCEPT ![r] = [pc |-> pc, op |-> op, user |-> user, id |-> id, doc |-> doc]]
    /\ sent' = NothingSent

\* a request is accepted on a free slot (slots are interchangeable: the
\* first free one is taken)
Accept(r) ==
    /\ req[r].pc = "idle"
    /\ \A other \in Slots : req[other].pc = "idle" => r <= other
    /\ started < MaxOps
    /\ started' = started + 1

\* Room.findOne(filter) / Room.findById(id): the _ids that match
RoomIds == DOMAIN rooms

FindByCode(roomCode) == {id \in RoomIds : rooms[id].roomCode = roomCode}

\* the join lookup without its status filter
FindAnyStatusByCode(roomCode) ==
    {id \in RoomIds : rooms[id].roomCode = roomCode}

FindActiveByCode(roomCode) ==
    {id \in RoomIds : rooms[id].roomCode = roomCode /\ rooms[id].status = "active"}

\* the name check narrowed to active rooms
FindActiveByLecturerAndName(lecturer, roomName) ==
    {id \in RoomIds : /\ rooms[id].lecturer = lecturer
                      /\ rooms[id].roomName = roomName
                      /\ rooms[id].status = "active"}

FindByLecturerAndName(lecturer, roomName) ==
    {id \in RoomIds : rooms[id].lecturer = lecturer /\ rooms[id].roomName = roomName}

\* a roomCode path without unique: true
NoUniqueIndex(roomCode) == TRUE

\* the unique index on roomCode: may a document with this code be inserted
UniqueIndexAllows(roomCode) == FindByCode(roomCode) = {}

\* the required validator of roomName: a non-empty string after the trim setter
RoomNameValid(doc) == doc.roomName # <<>>

\* questionsVisible !== undefined ? questionsVisible : true
QuestionsVisibleOf(v) == IF v = "undefined" THEN TRUE ELSE v = "true"

\* room.lecturer.toString() !== req.user._id.toString()
\* (on a null lecturer the toString call throws a TypeError)
LecturerCheck(doc, user) ==
    IF doc.lecturer = Null THEN "TypeError"
    ELSE IF doc.lecturer # user THEN "forbidden"
    ELSE "owner"

-----------------------------------------------------------------------------
(* Room.generateRoomCode, shared by the two creating handlers *)

\* one pass of the while loop ends: findOne({ roomCode }) answers.  A hit
\* draws the next code and asks again; a miss returns the code, and the
\* handler computes expiresAt and calls Room.create.
GenerateRoomCode(r) ==
    /\ req[r].pc = "gen"
    /\ LET q == req[r] IN
       IF FindByCode(q.doc.roomCode) # {}
       THEN \E d \in RandomDraws :
                Await(r, "gen", q.op, q.user, 0, [q.doc EXCEPT !.roomCode = CodeOfDraw(d)])
       ELSE Await(r, "create", q.op, q.user, 0,
                  [q.doc EXCEPT !.expiresAt = IF q.doc.isOneTime THEN now + OneHourMs
                                              ELSE NoDate])
    /\ UNCHANGED <<rooms, nextRoomId, questions, nextQid, now, started, deletedOk, listed, fanout, auth>>

\* Room.create answers: the insert, under the unique index on roomCode
RoomCreate(r) ==
    /\ req[r].pc = "create"
    /\ LET q == req[r]
           failure == IF q.op = "one-time" THEN Response(500, "Server error", "")
                      ELSE Response(500, "Error creating room", "")
       IN
       IF ~RoomNameValid(q.doc)
       THEN /\ Reply(r, q.op, q.user, 0, NoDoc, [failure EXCEPT !.error = "ValidationError"])
            /\ UNCHANGED <<rooms, nextRoomId>>
       ELSE IF ~UniqueIndexAllows(q.doc.roomCode)
       THEN /\ Reply(r, q.op, q.user, 0, NoDoc, [failure EXCEPT !.error = "E11000"])
            /\ UNCHANGED <<rooms, nextRoomId>>
       ELSE /\ nextRoomId <= MaxRooms
            /\ rooms' = [id \in RoomIds \cup {nextRoomId} |->
                            IF id = nextRoomId THEN q.doc ELSE rooms[id]]
            /\ nextRoomId' = nextRoomId + 1
            /\ Reply(r, q.op, q.user, nextRoomId, q.doc,
                     Response(201,
                              IF q.op = "one-time" THEN "One-time room created successfully"
                              ELSE "Room created successfully", ""))
    /\ UNCHANGED <<questions, nextQid, now, started, deletedOk, listed, fanout, auth>>

-----------------------------------------------------------------------------
(* POST /api/rooms/one-time *)

CreateOneTimeRoom(r, lecturerName) ==
    /\ Accept(r)
    /\ IF lecturerName = <<>> \/ trim(lecturerName) = <<>>
       THEN Reply(r, "one-time", Null, 0, NoDoc, Response(400, "Please provide your name", ""))
       ELSE \E d \in RandomDraws :
                Await(r, "gen", "one-time", Null, 0,
                      NewRoom(trim(lecturerName) \o <<"'", "s", " ", "R", "o", "o", "m">>,
                              CodeOfDraw(d), Null, trim(lecturerName), TRUE, TRUE,
                              NoDate))
    /\ UNCHANGED <<rooms, nextRoomId, questions, nextQid, now, deletedOk, listed, fanout, auth>>

-----------------------------------------------------------------------------
(* POST /api/rooms *)

\* the request, the check for a room of this lecturer with this name, and
\* the first draw of generateRoomCode
CreateRoom(r, user, roomName, questionsVisible) ==
    /\ Accept(r)
    /\ IF roomName = <<>>
       THEN Reply(r, "create", user, 0, NoDoc, Response(400, "Please provide a room name", ""))
       ELSE IF FindByLecturerAndName(user, trim(roomName)) # {}
       THEN Reply(r, "create", user, 0,
                  [NoDoc EXCEPT !.roomName = trim(roomName)],
                  Response(400, "You already have a room with this name. Please choose a different name.", ""))
       ELSE \E d \in RandomDraws :
                Await(r, "gen", "create", user, 0,
                      NewRoom(roomName, CodeOfDraw(d), user, UserName(user),
                              QuestionsVisibleOf(questionsVisible), FALSE, NoDate))
    /\ UNCHANGED <<rooms, nextRoomId, questions, nextQid, now, deletedOk, listed, fanout, auth>>

-----------------------------------------------------------------------------
(* document.save() and document.deleteOne() *)

\* save() of a loaded document: updateOne({ _id }, { $set: <modified paths> });
\* Mongoose raises DocumentNotFoundError when no document matches
SaveFinds(id) == id \in RoomIds

\* the modified paths of each handler's save()
\* the save that writes the whole document back
SaveWhole(stored, doc) == doc

SaveJoin(stored, doc) == [stored EXCEPT !.studentsCount = doc.studentsCount]

SaveVisibility(stored, doc) == [stored EXCEPT !.questionsVisible = doc.questionsVisible]

SaveClose(stored, doc) == [stored EXCEPT !.status = doc.status, !.closedAt = doc.closedAt]

-----------------------------------------------------------------------------
(* POST /api/rooms/join *)

\* the request and Room.findOne({ roomCode: roomCode.toUpperCase(), status: 'active' })
JoinRoomFind(r, roomCode) ==
    /\ Accept(r)
    /\ IF roomCode = <<>>
       THEN Reply(r, "join", Null, 0, NoDoc, Response(400, "Please provide a room code", ""))
       ELSE LET found == FindActiveByCode(toUpperCase(roomCode)) IN
            IF found = {}
            THEN Reply(r, "join", Null, 0, [NoDoc EXCEPT !.roomCode = toUpperCase(roomCode)],
                       Response(404, "Invalid room code or room is closed", ""))
            ELSE \E id \in found :
                    /\ rooms[id].studentsCount < MaxStudents
                    /\ Await(r, "save", "join", Null, id,
                             [rooms[id] EXCEPT !.studentsCount = rooms[id].studentsCount + 1])
    /\ UNCHANGED <<rooms, nextRoomId, questions, nextQid, now, deletedOk, listed, fanout, auth>>

\* room.save() answers, then the summary is sent
JoinRoomSave(r) ==
    /\ req[r].pc = "save" /\ req[r].op = "join"
    /\ LET q == req[r] IN
       IF SaveFinds(q.id)
       THEN /\ rooms' = [rooms EXCEPT ![q.id] = SaveJoin(rooms[q.id], q.doc)]
            /\ Reply(r, "join", Null, q.id, q.doc, Response(200, "Joined room successfully", ""))
       ELSE /\ Reply(r, "join", Null, q.id, NoDoc,
                     Response(500, "Error joining room", "DocumentNotFoundError"))
            /\ UNCHANGED rooms
    /\ UNCHANGED <<nextRoomId, questions, nextQid, now, started, deletedOk, listed, fanout, auth>>

-----------------------------------------------------------------------------
(* PUT /api/rooms/:id/toggle-visibility *)

ToggleVisibilityFind(r, user, id) ==
    /\ Accept(r)
    /\ IF id \notin RoomIds
       THEN Reply(r, "toggle", user, id, NoDoc, Response(404, "Room not found", ""))
       ELSE LET check == LecturerCheck(rooms[id], user) IN
            IF check = "TypeError"
            THEN Reply(r, "toggle", user, id, NoDoc,
                       Response(500, "Error toggling question visibility", "TypeError"))
            ELSE IF check = "forbidden"
            THEN Reply(r, "toggle", user, id, NoDoc,
                       Response(403, "Not authorized to modify this room", ""))
            ELSE Await(r, "save", "toggle", user, id,
                       [rooms[id] EXCEPT !.questionsVisible = ~rooms[id].questionsVisible])
    /\ UNCHANGED <<rooms, nextRoomId, questions, nextQid, now, deletedOk, listed, fanout, auth>>

ToggleVisibilitySave(r) ==
    /\ req[r].pc = "save" /\ req[r].op = "toggle"
    /\ LET q == req[r] IN
       IF SaveFinds(q.id)
       THEN /\ rooms' = [rooms EXCEPT ![q.id] = SaveVisibility(rooms[q.id], q.doc)]
            /\ Reply(r, "toggle", q.user, q.id, q.doc,
                     Response(200, IF q.doc.questionsVisible THEN "Questions are now public"
                                   ELSE "Questions are now private", ""))
       ELSE /\ Reply(r, "toggle", q.user, q.id, NoDoc,
                     Response(500, "Error toggling question visibility", "DocumentNotFoundError"))
            /\ UNCHANGED rooms
    /\ UNCHANGED <<nextRoomId, questions, nextQid, now, started, deletedOk, listed, fanout, auth>>

-----------------------------------------------------------------------------
(* PUT /api/rooms/:id/close *)

CloseRoomFind(r, user, id) ==
    /\ Accept(r)
    /\ IF id \notin RoomIds
       THEN Reply(r, "close", user, id, NoDoc, Response(404, "Room not found", ""))
       ELSE LET check == LecturerCheck(rooms[id], user) IN
            IF check = "TypeError"
            THEN Reply(r, "close", user, id, NoDoc,
                       Response(500, "Error closing room", "TypeError"))
            ELSE IF check = "forbidden"
            THEN Reply(r, "close", user, id, NoDoc,
                       Response(403, "Not authorized to close this room", ""))
            ELSE IF rooms[id].status = "closed"
            THEN Reply(r, "close", user, id, NoDoc,
                       Response(400, "Room is already closed", ""))
            ELSE Await(r, "save", "close", user, id,
                       [rooms[id] EXCEPT !.status = "closed", !.closedAt = now])
    /\ UNCHANGED <<rooms, nextRoomId, questions, nextQid, now, deletedOk, listed, fanout, auth>>

CloseRoomSave(r) ==
    /\ req[r].pc = "save" /\ req[r].op = "close"
    /\ LET q == req[r] IN
       IF SaveFinds(q.id)
       THEN /\ rooms' = [rooms EXCEPT ![q.id] = SaveClose(rooms[q.id], q.doc)]
            /\ Reply(r, "close", q.user, q.id, q.doc,
                     Response(200, "Room closed successfully", ""))
       ELSE /\ Reply(r, "close", q.user, q.id, NoDoc,
                     Response(500, "Error closing room", "DocumentNotFoundError"))
            /\ UNCHANGED rooms
    /\ UNCHANGED <<nextRoomId, questions, nextQid, now, started, deletedOk, listed, fanout, auth>>

-----------------------------------------------------------------------------
(* DELETE /api/rooms/:id *)

DeleteRoomFind(r, user, id) ==
    /\ Accept(r)
    /\ IF id \notin RoomIds
       THEN Reply(r, "delete", user, id, NoDoc, Response(404, "Room not found", ""))
       ELSE LET check == LecturerCheck(rooms[id], user) IN
            IF check = "TypeError"
            THEN Reply(r, "delete", user, id, NoDoc,
                       Response(500, "Error deleting room", "TypeError"))
            ELSE IF check = "forbidden"
            THEN Reply(r, "delete", user, id, NoDoc,
                       Response(403, "Not authorized to delete this room", ""))
            ELSE Await(r, "deleteMany", "delete", user, id, rooms[id])
    /\ UNCHANGED <<rooms, nextRoomId, questions, nextQid, now, deletedOk, listed, fanout, auth>>

\* Question.deleteMany({ room: room._id }) answers
DeleteRoomQuestions(r) ==
    /\ req[r].pc = "deleteMany"
    /\ LET q == req[r] IN
       /\ questions' = [k \in {k \in DOMAIN questions : questions[k].room # q.id} |->
                            questions[k]]
       /\ Await(r, "deleteOne", "delete", q.user, q.id, q.doc)
    /\ UNCHANGED <<rooms, nextRoomId, nextQid, now, started, deletedOk, listed, fanout, auth>>

\* room.deleteOne() answers (a document already gone is no error)
DeleteRoomDoc(r) ==
    /\ req[r].pc = "deleteOne"
    /\ LET q == req[r] IN
       /\ rooms' = [id \in RoomIds \ {q.id} |-> rooms[id]]
       /\ deletedOk' = deletedOk \cup {q.id}
       /\ Reply(r, "delete", q.user, q.id, NoDoc,
                Response(200, "Room and all associated questions deleted successfully", ""))
    /\ UNCHANGED <<nextRoomId, questions, nextQid, now, started, listed, fanout, auth>>

-----------------------------------------------------------------------------
(* Questions: the document of the Question model; submit as the            *)
(* specification states it (one atomic store operation)                    *)

NewQuestion(room, createdAt) ==
    [ room       |-> room,
      upvotes    |-> 0,
      upvotedBy  |-> <<>>,
      status     |-> "pending",
      isReported |-> FALSE,
      reportedBy |-> <<>>,
      reportCount |-> 0,
      createdAt  |-> createdAt,
      answeredAt |-> NoDate ]

\* no room ever counts as expired
NeverExpired(room) == FALSE

\* an ephemeral room past its expiresAt
Expired(room) == room.isOneTime /\ now > room.expiresAt

SubmitQuestion(r, id) ==
    /\ Accept(r)
    /\ IF id \notin RoomIds
       THEN /\ Reply(r, "submit", Null, id, NoDoc, Response(404, "RoomNotFound", ""))
            /\ UNCHANGED <<questions, nextQid>>
       ELSE IF rooms[id].status = "closed" \/ Expired(rooms[id])
       THEN /\ Reply(r, "submit", Null, id, NoDoc, Response(400, "RoomClosed", ""))
            /\ UNCHANGED <<questions, nextQid>>
       ELSE /\ nextQid <= MaxQuestions
            /\ questions' = [k \in DOMAIN questions \cup {nextQid} |->
                                IF k = nextQid THEN NewQuestion(id, now) ELSE questions[k]]
            /\ nextQid' = nextQid + 1
            /\ Reply(r, "submit", Null, id, NoDoc, Response(201, "Question", ""))
    /\ UNCHANGED <<rooms, nextRoomId, now, deletedOk, listed, fanout, auth>>

-----------------------------------------------------------------------------
(* The question routes (/api/questions), as the specification states them: *)
(* every operation is one atomic store operation and answers at once.      *)
(* upvotedBy and reportedBy are the arrays of the Question model.          *)

QuestionIds == DOMAIN questions

QuestionIdInputs == 1..MaxQuestions

Elems(seq) == {seq[i] : i \in 1..Len(seq)}

Without(seq, token) ==
    LET Keep(t) == t # token IN SelectSeq(seq, Keep)

\* an answer of a question route: no slot is held
Answer(op, user, id, resp) ==
    /\ sent' = [op |-> op, user |-> user, id |-> id, doc |-> NoDoc, resp |-> resp]
    /\ req' = req

QuestionNotFound == Response(404, "QuestionNotFound", "")

Forbidden == Response(403, "Forbidden", "")

InvalidTransition == Response(400, "InvalidTransition", "")

\* the toggle that only ever adds the token
PushedUpvote(upvotedBy, token) == Append(upvotedBy, token)

\* toggleUpvote: the token is removed if present, added otherwise
ToggledUpvote(upvotedBy, token) ==
    IF token \in Elems(upvotedBy) THEN Without(upvotedBy, token)
    ELSE Append(upvotedBy, token)

\* the upvote that adds an absent token and never removes one
UpvotedOnce(q, token) ==
    LET by == IF token \in Elems(q.upvotedBy) THEN q.upvotedBy
              ELSE Append(q.upvotedBy, token)
    IN  [q EXCEPT !.upvotedBy = by, !.upvotes = Len(by)]

\* the question after toggleUpvote: upvotes is recomputed from upvotedBy
Upvoted(q, token) ==
    LET by == ToggledUpvote(q.upvotedBy, token)
    IN  [q EXCEPT !.upvotedBy = by, !.upvotes = Len(by)]

ToggleUpvote(id, token) ==
    /\ IF id \notin QuestionIds
       THEN /\ Answer("upvote", token, id, QuestionNotFound)
            /\ UNCHANGED questions
       ELSE /\ questions' = [questions EXCEPT ![id] = Upvoted(questions[id], token)]
            /\ Answer("upvote", token, id, Response(200, "Question", ""))
    /\ UNCHANGED <<rooms, nextRoomId, nextQid, now, started, deletedOk, listed, fanout, auth>>

\* the report that counts every call
ReportedAgain(q, token) ==
    LET by == Append(q.reportedBy, token)
    IN  [q EXCEPT !.reportedBy = by, !.reportCount = Len(by), !.isReported = TRUE]

\* the question after report: the token is added if absent
Reported(q, token) ==
    LET by == IF token \in Elems(q.reportedBy) THEN q.reportedBy
              ELSE Append(q.reportedBy, token)
    IN  [q EXCEPT !.reportedBy = by, !.reportCount = Len(by),
                  !.isReported = (Len(by) >= 1)]

ReportQuestion(id, token) ==
    /\ IF id \notin QuestionIds
       THEN /\ Answer("report", token, id, QuestionNotFound)
            /\ UNCHANGED questions
       ELSE /\ questions' = [questions EXCEPT ![id] = Reported(questions[id], token)]
            /\ Answer("report", token, id, Response(200, "Question", ""))
    /\ UNCHANGED <<rooms, nextRoomId, nextQid, now, started, deletedOk, listed, fanout, auth>>

\* the caller owns the room of the question
OwnsQuestion(q, user) == q.room \in RoomIds /\ rooms[q.room].lecturer = user

\* approve from any status that is not approved already
ApprovableAnyTime(status) == status # "approved"

Approvable(status) == status = "pending"

Answerable(status) == status \in {"pending", "approved"}

\* the moderation action on a reported question
Rejectable(q) == q.status = "pending" /\ q.isReported

\* an owner-only transition: to is the question after it, where it is valid
OwnerOnly(op, id, user, valid, to) ==
    IF id \notin QuestionIds
    THEN /\ Answer(op, user, id, QuestionNotFound)
         /\ UNCHANGED questions
    ELSE IF ~OwnsQuestion(questions[id], user)
    THEN /\ Answer(op, user, id, Forbidden)
         /\ UNCHANGED questions
    ELSE IF ~valid
    THEN /\ Answer(op, user, id, InvalidTransition)
         /\ UNCHANGED questions
    ELSE /\ questions' = [questions EXCEPT ![id] = to]
         /\ Answer(op, user, id, Response(200, "Question", ""))

ApproveQuestion(id, user) ==
    /\ OwnerOnly("approve", id, user,
                 id \in QuestionIds /\ Approvable(questions[id].status),
                 [questions[id] EXCEPT !.status = "approved"])
    /\ UNCHANGED <<rooms, nextRoomId, nextQid, now, started, deletedOk, listed, fanout, auth>>

MarkAnswered(id, user) ==
    /\ OwnerOnly("answer", id, user,
                 id \in QuestionIds /\ Answerable(questions[id].status),
                 [questions[id] EXCEPT !.status = "answered", !.answeredAt = now])
    /\ UNCHANGED <<rooms, nextRoomId, nextQid, now, started, deletedOk, listed, fanout, auth>>

RejectReported(id, user) ==
    /\ OwnerOnly("reject", id, user,
                 id \in QuestionIds /\ Rejectable(questions[id]),
                 [questions[id] EXCEPT !.status = "rejected"])
    /\ UNCHANGED <<rooms, nextRoomId, nextQid, now, started, deletedOk, listed, fanout, auth>>

\* remove: the owner's hard delete
RemoveQuestion(id, user) ==
    /\ IF id \notin QuestionIds
       THEN /\ Answer("remove", user, id, QuestionNotFound)
            /\ UNCHANGED questions
       ELSE IF ~OwnsQuestion(questions[id], user)
       THEN /\ Answer("remove", user, id, Forbidden)
            /\ UNCHANGED questions
       ELSE /\ questions' = [k \in QuestionIds \ {id} |-> questions[k]]
            /\ Answer("remove", user, id, Response(200, "", ""))
    /\ UNCHANGED <<rooms, nextRoomId, nextQid, now, started, deletedOk, listed, fanout, auth>>

\* the listing that breaks ties of upvotes by the later _id
BeforeByUpvotes(a, b) ==
    \/ questions[a].upvotes > questions[b].upvotes
    \/ questions[a].upvotes = questions[b].upvotes /\ a > b

\* the sort of the listing: more upvotes first, then the earlier createdAt;
\* questions equal in both stay in the order of the store (by _id)
Before(a, b) ==
    \/ questions[a].upvotes > questions[b].upvotes
    \/ /\ questions[a].upvotes = questions[b].upvotes
       /\ questions[a].createdAt < questions[b].createdAt
    \/ /\ questions[a].upvotes = questions[b].upvotes
       /\ questions[a].createdAt = questions[b].createdAt
       /\ a < b

QuestionsOf(room) == {k \in QuestionIds : questions[k].room = room}

\* the sorted list of a room's questions
Listing(room) ==
    LET ids == QuestionsOf(room)
        Rank(k) == 1 + Cardinality({o \in ids : Before(o, k)})
    IN  [i \in 1..Cardinality(ids) |-> CHOOSE k \in ids : Rank(k) = i]

\* GET /api/questions/room/:roomId
ListQuestions(room) ==
    /\ IF room \notin RoomIds
       THEN /\ Answer("list", Null, room, Response(404, "RoomNotFound", ""))
            /\ listed' = <<>>
       ELSE /\ Answer("list", Null, room, Response(200, "Questions", ""))
            /\ listed' = Listing(room)
    /\ UNCHANGED <<rooms, nextRoomId, questions, nextQid, now, started, deletedOk, fanout, auth>>

-----------------------------------------------------------------------------
(* The realtime gateway, as the specification states it: socket rooms by   *)
(* room code, and the README's events.  An emit puts the event in flight   *)
(* to each connection of its audience; a connection receives it later.     *)

\* the client events the server relays, of the README's table
ClientEvents == {"room-closed", "visibility-toggled"}

\* the server event that answers a client event
ServerEventOf(name) ==
    IF name = "room-closed" THEN "room-status-changed" ELSE "room-visibility-changed"

\* the audience of a broadcast to everybody connected
Everybody(roomCode, from) == Connections \ {from}

\* the audience of an emit to a room: its subscribers but the originator
Audience(roomCode, from) == subs[roomCode] \ {from}

\* publish(roomCode, eventName, payload); published keeps, with the event,
\* the room's subscribers at this moment
Publish(roomCode, name, from) ==
    /\ Len(published) < MaxEvents
    /\ published' = Append(published,
                           [name |-> name, room |-> roomCode, subscribers |-> subs[roomCode]])
    /\ flight' = flight \cup {<<Len(published) + 1, c>> : c \in Audience(roomCode, from)}

\* join-room: subscribe(connection, roomCode), with user-joined to the rest
Subscribe(c, roomCode) ==
    /\ Publish(roomCode, "user-joined", c)
    /\ subs' = [subs EXCEPT ![roomCode] = @ \cup {c}]
    /\ sent' = NothingSent
    /\ UNCHANGED <<rooms, nextRoomId, questions, nextQid, now, req, started, deletedOk,
                   listed, inbox, auth>>

\* leave-room: unsubscribe(connection, roomCode), with user-left to the rest
Unsubscribe(c, roomCode) ==
    /\ Publish(roomCode, "user-left", c)
    /\ subs' = [subs EXCEPT ![roomCode] = @ \ {c}]
    /\ sent' = NothingSent
    /\ UNCHANGED <<rooms, nextRoomId, questions, nextQid, now, req, started, deletedOk,
                   listed, inbox, auth>>

\* a client event arrives and the server publishes its event to the room
Relay(c, roomCode, name) ==
    /\ Publish(roomCode, ServerEventOf(name), c)
    /\ sent' = NothingSent
    /\ UNCHANGED <<rooms, nextRoomId, questions, nextQid, now, req, started, deletedOk,
                   listed, subs, inbox, auth>>

\* an event in flight reaches its connection
Receive(e, c) ==
    /\ <<e, c>> \in flight
    /\ flight' = flight \ {<<e, c>>}
    /\ inbox' = [inbox EXCEPT ![c] = Append(@, e)]
    /\ sent' = NothingSent
    /\ UNCHANGED <<rooms, nextRoomId, questions, nextQid, now, req, started, deletedOk,
                   listed, subs, published, auth>>

-----------------------------------------------------------------------------
(* routes/auth.js: the Map verificationCodes and the handlers that use it. *)
(* The sending of the mail changes nothing the handlers read and is left   *)
(* out; request bodies carry every field or lack the email.                *)

Emails == {"e1", "e2"}

EmailInputs == Emails \cup {""}

\* the outcomes of Math.floor(100000 + Math.random() * 900000).toString()
CodeDraws == {"111111", "222222"}

NewPasswords == {"p1", "p2"}

FiveMinutesMs == 5 * 60 * 1000

TenMinutesMs == 10 * 60 * 1000

AuthTickMs == FiveMinutesMs + 1

\* verificationCodes.get(email) of an email without entry
NoEntry == [code |-> "", expiresAt |-> NoDate, type |-> "none"]

\* an entry as send-verification stores it has no type
Entry(code, expiresAt, type) == [code |-> code, expiresAt |-> expiresAt, type |-> type]

NoAccount == "none"

AuthIdle == [pc |-> "idle", email |-> "", code |-> "", password |-> ""]

AuthAtStart ==
    /\ verificationCodes = [e \in Emails |-> NoEntry]
    /\ accounts = [e \in Emails |-> NoAccount]
    /\ areq = [r \in Slots |-> AuthIdle]
    /\ resetsDone = [e \in Emails |-> 0]

\* what the auth handlers leave alone
roomsSide == <<rooms, nextRoomId, questions, nextQid, req, deletedOk, listed, fanout>>

AuthAccept(r) ==
    /\ areq[r].pc = "idle"
    /\ \A other \in Slots : areq[other].pc = "idle" => r <= other
    /\ started < MaxAuthOps
    /\ started' = started + 1

AuthReply(r, op, email, resp) ==
    /\ areq' = [areq EXCEPT ![r] = AuthIdle]
    /\ sent' = [op |-> op, user |-> email, id |-> 0, doc |-> NoDoc, resp |-> resp]

AuthAwait(r, pc, email, code, password) ==
    /\ areq' = [areq EXCEPT ![r] = [pc |-> pc, email |-> email, code |-> code,
                                    password |-> password]]
    /\ sent' = NothingSent

\* POST /signup: the request and User.findOne({ email })
SignupFind(r, email) ==
    /\ AuthAccept(r)
    /\ IF email = ""
       THEN AuthReply(r, "signup", email,
                      Response(400, "Please provide full name, email and password", ""))
       ELSE IF accounts[email] # NoAccount
       THEN AuthReply(r, "signup", email,
                      Response(400, "User already exists with this email", ""))
       ELSE AuthAwait(r, "create", email, "", "p0")
    /\ UNCHANGED <<roomsSide, now, verificationCodes, accounts, resetsDone>>

\* User.create answers (the email of a user is unique)
SignupCreate(r) ==
    /\ areq[r].pc = "create"
    /\ LET q == areq[r] IN
       IF accounts[q.email] # NoAccount
       THEN /\ AuthReply(r, "signup", q.email,
                         Response(500, "Server error during signup", "E11000"))
            /\ UNCHANGED accounts
       ELSE /\ accounts' = [accounts EXCEPT ![q.email] = q.password]
            /\ AuthReply(r, "signup", q.email, Response(201, "Account created successfully", ""))
    /\ UNCHANGED <<roomsSide, now, started, verificationCodes, resetsDone>>

\* POST /send-verification: User.findOne, the draw and verificationCodes.set
SendVerification(r, email) ==
    /\ AuthAccept(r)
    /\ IF email = ""
       THEN /\ AuthReply(r, "send-verification", email,
                         Response(400, "Please provide email address", ""))
            /\ UNCHANGED <<verificationCodes, resetsDone>>
       ELSE IF accounts[email] # NoAccount
       THEN /\ AuthReply(r, "send-verification", email,
                         Response(400, "User already exists with this email", ""))
            /\ UNCHANGED <<verificationCodes, resetsDone>>
       ELSE \E code \in CodeDraws :
               /\ verificationCodes' =
                     [verificationCodes EXCEPT
                         ![email] = Entry(code, now + FiveMinutesMs, "undefined")]
               /\ resetsDone' = [resetsDone EXCEPT ![email] = 0]
               /\ AuthReply(r, "send-verification", email,
                            Response(200, "Verification code generated", ""))
    /\ UNCHANGED <<roomsSide, now, accounts>>

\* POST /verify-code: no await, the handler runs in one piece
VerifyCode(r, email, code) ==
    /\ AuthAccept(r)
    /\ LET stored == IF email = "" THEN NoEntry ELSE verificationCodes[email] IN
       IF email = ""
       THEN /\ AuthReply(r, "verify-code", email,
                         Response(400, "Please provide email and verification code", ""))
            /\ UNCHANGED verificationCodes
       ELSE IF stored = NoEntry
       THEN /\ AuthReply(r, "verify-code", email,
                         Response(400, "Verification code not found or expired", ""))
            /\ UNCHANGED verificationCodes
       ELSE IF now > stored.expiresAt
       THEN /\ verificationCodes' = [verificationCodes EXCEPT ![email] = NoEntry]
            /\ AuthReply(r, "verify-code", email,
                         Response(400, "Verification code has expired", ""))
       ELSE IF stored.code # code
       THEN /\ AuthReply(r, "verify-code", email,
                         Response(400, "Invalid verification code", ""))
            /\ UNCHANGED verificationCodes
       ELSE /\ verificationCodes' = [verificationCodes EXCEPT ![email] = NoEntry]
            /\ AuthReply(r, "verify-code", email,
                         Response(200, "Email verified successfully", ""))
    /\ UNCHANGED <<roomsSide, now, accounts, resetsDone>>

\* POST /forgot-password: User.findOne, the draw and verificationCodes.set
ForgotPassword(r, email) ==
    /\ AuthAccept(r)
    /\ IF email = ""
       THEN /\ AuthReply(r, "forgot-password", email,
                         Response(400, "Please provide an email", ""))
            /\ UNCHANGED <<verificationCodes, resetsDone>>
       ELSE IF accounts[email] = NoAccount
       THEN /\ AuthReply(r, "forgot-password", email,
                         Response(404, "No account found with this email", ""))
            /\ UNCHANGED <<verificationCodes, resetsDone>>
       ELSE \E code \in CodeDraws :
               /\ verificationCodes' =
                     [verificationCodes EXCEPT
                         ![email] = Entry(code, now + TenMinutesMs, "password-reset")]
               /\ resetsDone' = [resetsDone EXCEPT ![email] = 0]
               /\ AuthReply(r, "forgot-password", email,
                            Response(200, "Password reset code generated", ""))
    /\ UNCHANGED <<roomsSide, now, accounts>>

\* POST /reset-password: the checks of the stored code, up to User.findOne
ResetPasswordCheck(r, email, code, newPassword) ==
    /\ AuthAccept(r)
    /\ LET stored == IF email = "" THEN NoEntry ELSE verificationCodes[email] IN
       IF email = ""
       THEN /\ AuthReply(r, "reset-password", email,
                         Response(400, "Please provide email, code, and new password", ""))
            /\ UNCHANGED verificationCodes
       ELSE IF stored = NoEntry \/ stored.type # "password-reset"
       THEN /\ AuthReply(r, "reset-password", email,
                         Response(400, "Invalid or expired reset code", ""))
            /\ UNCHANGED verificationCodes
       ELSE IF now > stored.expiresAt
       THEN /\ verificationCodes' = [verificationCodes EXCEPT ![email] = NoEntry]
            /\ AuthReply(r, "reset-password", email,
                         Response(400, "Reset code has expired", ""))
       ELSE IF stored.code # code
       THEN /\ AuthReply(r, "reset-password", email, Response(400, "Invalid reset code", ""))
            /\ UNCHANGED verificationCodes
       ELSE /\ AuthAwait(r, "find", email, code, newPassword)
            /\ UNCHANGED verificationCodes
    /\ UNCHANGED <<roomsSide, now, accounts, resetsDone>>

\* User.findOne({ email }) answers; user.password is set and save() called
ResetPasswordFind(r) ==
    /\ areq[r].pc = "find"
    /\ LET q == areq[r] IN
       IF accounts[q.email] = NoAccount
       THEN AuthReply(r, "reset-password", q.email, Response(404, "User not found", ""))
       ELSE AuthAwait(r, "save", q.email, q.code, q.password)
    /\ UNCHANGED <<roomsSide, now, started, verificationCodes, accounts, resetsDone>>

\* user.save() answers; the used code is removed and the success sent
ResetPasswordSave(r) ==
    /\ areq[r].pc = "save"
    /\ LET q == areq[r] IN
       /\ accounts' = [accounts EXCEPT ![q.email] = q.password]
       /\ verificationCodes' = [verificationCodes EXCEPT ![q.email] = NoEntry]
       /\ resetsDone' = [resetsDone EXCEPT ![q.email] = @ + 1]
       /\ AuthReply(r, "reset-password", q.email, Response(200, "Password reset successful", ""))
    /\ UNCHANGED <<roomsSide, now, started>>

\* time passes: a little more than five minutes
AuthTick ==
    /\ now + AuthTickMs <= MaxAuthTicks * AuthTickMs
    /\ now' = now + AuthTickMs
    /\ sent' = NothingSent
    /\ UNCHANGED <<roomsSide, started, auth>>

-----------------------------------------------------------------------------
(* The environment *)

\* time passes: a little more than an hour
Tick ==
    /\ now + TickMs <= MaxNow
    /\ now' = now + TickMs
    /\ sent' = NothingSent
    /\ UNCHANGED <<rooms, nextRoomId, questions, nextQid, req, started, deletedOk, listed, fanout, auth>>

-----------------------------------------------------------------------------
(* The specification *)

Init ==
    /\ rooms = <<>>
    /\ nextRoomId = 1
    /\ questions = <<>>
    /\ nextQid = 1
    /\ now = 0
    /\ req = [r \in Slots |-> Idle]
    /\ sent = NothingSent
    /\ started = 0
    /\ deletedOk = {}
    /\ listed = <<>>
    /\ subs = [c \in DrawnCodes |-> {}]
    /\ flight = {}
    /\ inbox = [c \in Connections |-> <<>>]
    /\ published = <<>>
    /\ AuthAtStart

Next ==
    \/ \E r \in Slots, n \in LecturerNameInputs : CreateOneTimeRoom(r, n)
    \/ \E r \in Slots, u \in Users, n \in RoomNameInputs, v \in VisibleInputs :
          CreateRoom(r, u, n, v)
    \/ \E r \in Slots : GenerateRoomCode(r)
    \/ \E r \in Slots : RoomCreate(r)
    \/ \E r \in Slots, c \in RoomCodeInputs : JoinRoomFind(r, c)
    \/ \E r \in Slots : JoinRoomSave(r)
    \/ \E r \in Slots, u \in Users, id \in RoomIdInputs : ToggleVisibilityFind(r, u, id)
    \/ \E r \in Slots : ToggleVisibilitySave(r)
    \/ \E r \in Slots, u \in Users, id \in RoomIdInputs : CloseRoomFind(r, u, id)
    \/ \E r \in Slots : CloseRoomSave(r)
    \/ \E r \in Slots, u \in Users, id \in RoomIdInputs : DeleteRoomFind(r, u, id)
    \/ \E r \in Slots : DeleteRoomQuestions(r)
    \/ \E r \in Slots : DeleteRoomDoc(r)
    \/ \E r \in Slots, id \in RoomIdInputs : SubmitQuestion(r, id)
    \/ Tick

Spec == Init /\ [][Next]_vars

-----------------------------------------------------------------------------
(* The question routes at work: the store holds a room of lecturer u1 and  *)
(* an ephemeral room, as POST / and POST /one-time leave them.             *)

OwnedRoom ==
    NewRoom(<<"A">>, CodeOfDraw(DrawOf(1)), "u1", UserName("u1"), TRUE, FALSE, NoDate)

EphemeralRoom ==
    NewRoom(<<"L", "'", "s", " ", "R", "o", "o", "m">>, CodeOfDraw(DrawOf(2)), Null,
            <<"L">>, TRUE, TRUE, OneHourMs)

TwoRooms == <<OwnedRoom, EphemeralRoom>>

InitQuestions ==
    /\ rooms = TwoRooms
    /\ nextRoomId = 3
    /\ questions = <<>>
    /\ nextQid = 1
    /\ now = 0
    /\ req = [r \in Slots |-> Idle]
    /\ sent = NothingSent
    /\ started = 0
    /\ deletedOk = {}
    /\ listed = <<>>
    /\ subs = [c \in DrawnCodes |-> {}]
    /\ flight = {}
    /\ inbox = [c \in Connections |-> <<>>]
    /\ published = <<>>
    /\ AuthAtStart

NextQuestions ==
    \/ \E r \in Slots, id \in RoomIdInputs : SubmitQuestion(r, id)
    \/ \E id \in QuestionIdInputs, t \in Tokens : ToggleUpvote(id, t)
    \/ \E id \in QuestionIdInputs, t \in Tokens : ReportQuestion(id, t)
    \/ \E id \in QuestionIdInputs, u \in Users : ApproveQuestion(id, u)
    \/ \E id \in QuestionIdInputs, u \in Users : MarkAnswered(id, u)
    \/ \E id \in QuestionIdInputs, u \in Users : RejectReported(id, u)
    \/ \E id \in QuestionIdInputs, u \in Users : RemoveQuestion(id, u)
    \/ \E r \in Slots, u \in Users, id \in RoomIdInputs : CloseRoomFind(r, u, id)
    \/ \E r \in Slots : CloseRoomSave(r)
    \/ Tick

SpecQuestions == InitQuestions /\ [][NextQuestions]_vars

-----------------------------------------------------------------------------
(* The creation of ephemeral rooms under fair scheduling: a handler whose  *)
(* awaited store operation can answer is answered in the end, and every    *)
(* outcome of Math.random comes up again and again in a loop that goes on. *)

\* a pass of generateRoomCode's loop whose next draw, if it draws, is d
Pass(r, d) ==
    /\ GenerateRoomCode(r)
    /\ req'[r].pc = "gen" => req'[r].doc.roomCode = CodeOfDraw(d)

NextCodes ==
    \/ \E r \in Slots, n \in LecturerNameInputs : CreateOneTimeRoom(r, n)
    \/ \E r \in Slots : GenerateRoomCode(r)
    \/ \E r \in Slots : RoomCreate(r)

SpecCodes ==
    /\ Init
    /\ [][NextCodes]_vars
    /\ \A r \in Slots : WF_vars(GenerateRoomCode(r)) /\ WF_vars(RoomCreate(r))
    /\ \A r \in Slots : \A d \in RandomDraws : SF_vars(Pass(r, d))

-----------------------------------------------------------------------------
(* The auth routes around the Map verificationCodes *)

NextAuth ==
    \/ \E r \in Slots, e \in EmailInputs : SignupFind(r, e)
    \/ \E r \in Slots : SignupCreate(r)
    \/ \E r \in Slots, e \in EmailInputs : SendVerification(r, e)
    \/ \E r \in Slots, e \in EmailInputs, c \in CodeDraws : VerifyCode(r, e, c)
    \/ \E r \in Slots, e \in EmailInputs : ForgotPassword(r, e)
    \/ \E r \in Slots, e \in EmailInputs, c \in CodeDraws, p \in NewPasswords :
          ResetPasswordCheck(r, e, c, p)
    \/ \E r \in Slots : ResetPasswordFind(r)
    \/ \E r \in Slots : ResetPasswordSave(r)
    \/ AuthTick

SpecAuth == Init /\ [][NextAuth]_vars

-----------------------------------------------------------------------------
(* The listing, over the question sets of up to MaxListed questions: the   *)
(* store assigns _ids in the order of creation, so createdAt never falls   *)
(* as the _id grows.                                                       *)

ListedUpvotes == {0, 2, 5}

ListedTimes == {0, 1, 2}

Voters == <<"t1", "t2", "t3", "t4", "t5">>

\* a stored question with the given upvotes
ListedQuestion(room, upvotes, createdAt) ==
    [NewQuestion(room, createdAt) EXCEPT !.upvotes = upvotes,
                                         !.upvotedBy = SubSeq(Voters, 1, upvotes)]

ListedQuestions ==
    {ListedQuestion(room, u, t) : room \in RoomIdInputs, u \in ListedUpvotes, t \in ListedTimes}

InitListing ==
    /\ rooms = TwoRooms
    /\ nextRoomId = 3
    /\ \E n \in 0..MaxListed :
          /\ questions \in [1..n -> ListedQuestions]
          /\ \A a \in 1..n, b \in 1..n : a < b => questions[a].createdAt <= questions[b].createdAt
          /\ nextQid = n + 1
    /\ now = 2
    /\ req = [r \in Slots |-> Idle]
    /\ sent = NothingSent
    /\ started = 0
    /\ deletedOk = {}
    /\ listed = <<>>
    /\ subs = [c \in DrawnCodes |-> {}]
    /\ flight = {}
    /\ inbox = [c \in Connections |-> <<>>]
    /\ published = <<>>
    /\ AuthAtStart

NextListing == \E room \in RoomIdInputs \cup {3} : ListQuestions(room)

SpecListing == InitListing /\ [][NextListing]_vars

-----------------------------------------------------------------------------
(* The gateway alone, and beside the two room routes whose events it       *)
(* carries                                                                 *)

NextGateway ==
    \/ \E c \in Connections, k \in DrawnCodes : Subscribe(c, k)
    \/ \E c \in Connections, k \in DrawnCodes : Unsubscribe(c, k)
    \/ \E c \in Connections, k \in DrawnCodes, n \in ClientEvents : Relay(c, k, n)
    \/ \E e \in 1..MaxEvents, c \in Connections : Receive(e, c)

SpecGateway == Init /\ [][NextGateway]_vars

NextFanout ==
    \/ \E c \in Connections, k \in DrawnCodes : Subscribe(c, k)
    \/ \E c \in Connections, k \in DrawnCodes : Unsubscribe(c, k)
    \/ \E c \in Connections, k \in DrawnCodes, n \in ClientEvents : Relay(c, k, n)
    \/ \E e \in 1..MaxEvents, c \in Connections : Receive(e, c)
    \/ \E r \in Slots, u \in Users, id \in RoomIdInputs : CloseRoomFind(r, u, id)
    \/ \E r \in Slots : CloseRoomSave(r)
    \/ \E r \in Slots, u \in Users, id \in RoomIdInputs : ToggleVisibilityFind(r, u, id)
    \/ \E r \in Slots : ToggleVisibilitySave(r)

SpecFanout == InitQuestions /\ [][NextFanout]_vars

-----------------------------------------------------------------------------
(* Steps, as the properties below read them *)

\* this step sends a response (it is sent')
Replies == sent' # NothingSent

\* this step accepts a request that goes on to its next await on slot r
GoesOn(r) == req[r].pc = "idle" /\ req'[r].pc # "idle"

\* this step accepts a request and answers it at once
AnsweredAtOnce == started' # started /\ Replies

\* this step accepts the request op of user on room id
Accepts(op, user, id) ==
    \/ AnsweredAtOnce /\ sent'.op = op /\ sent'.user = user /\ sent'.id = id
    \/ \E r \in Slots : GoesOn(r) /\ req'[r].op = op /\ req'[r].user = user /\ req'[r].id = id

\* this step admits a join to room id (the lookup found it)
JoinAdmitted(id) ==
    \E r \in Slots : GoesOn(r) /\ req'[r].op = "join" /\ req'[r].id = id

\* this step refuses a join with the 404 of the lookup
JoinRefused == AnsweredAtOnce /\ sent'.op = "join" /\ sent'.resp.status = 404

HeldByClosedRoom(roomCode) ==
    \E id \in RoomIds : rooms[id].roomCode = roomCode /\ rooms[id].status = "closed"

HeldByNoRoom(roomCode) ==
    \A id \in RoomIds : rooms[id].roomCode # roomCode

-----------------------------------------------------------------------------
(* C1: in every reachable state no two stored rooms hold the same code,    *)
(* whatever their status, also when two creations overlap between the      *)
(* uniqueness check of generateRoomCode and the insert.                    *)
C1_CodeUnique ==
    \A a \in RoomIds, b \in RoomIds : a # b => rooms[a].roomCode # rooms[b].roomCode

\* an insert that raced another creation was turned down by the index
C1_Witness ==
    /\ sent.resp.error = "E11000"
    /\ RoomIds # {}

\* what a join of a code that no room holds is answered
JoinNotFoundResponse == Response(404, "Invalid room code or room is closed", "")

(* C2 as stated: a join that fails on a code held by a closed room gets a  *)
(* kind (RoomClosed) distinct from the one an unknown code gets.           *)
C2_Original ==
    [][(JoinRefused /\ HeldByClosedRoom(sent'.doc.roomCode))
          => sent'.resp # JoinNotFoundResponse]_vars

(* C2 as amended: a join is admitted only to an active room holding the    *)
(* uppercased code; when no active room holds it, whether the code is held *)
(* by a closed room or by none, the join fails with one and the same       *)
(* response (404, 'Invalid room code or room is closed') and the Room      *)
(* collection is left unchanged.                                           *)
C2_JoinRefusal ==
    [][/\ \A id \in RoomIds : JoinAdmitted(id) => rooms[id].status = "active"
       /\ JoinRefused =>
             /\ HeldByClosedRoom(sent'.doc.roomCode) \/ HeldByNoRoom(sent'.doc.roomCode)
             /\ sent'.resp = JoinNotFoundResponse
             /\ rooms' = rooms
       /\ (AnsweredAtOnce /\ sent'.op = "join") => rooms' = rooms]_vars

\* a join was just refused on the code of a closed room
C2_Witness ==
    /\ sent.op = "join"
    /\ sent.resp.status = 404
    /\ HeldByClosedRoom(sent.doc.roomCode)

(* C3: once a room is closed its studentsCount never changes again, also   *)
(* for a join that read the room as active before the close was saved.     *)
C3_ClosedCountFrozen ==
    [][\A id \in RoomIds :
          (rooms[id].status = "closed" /\ id \in DOMAIN rooms')
             => rooms'[id].studentsCount = rooms[id].studentsCount]_vars

(* C4: a join at a time later than an ephemeral room's expiresAt is        *)
(* treated as a join to a closed room: it is not admitted.                 *)
C4_ExpiredJoinRefused ==
    [][\A id \in RoomIds : JoinAdmitted(id) => ~Expired(rooms[id])]_vars

(* C5: of the owner's close calls on one room exactly one succeeds: a      *)
(* close that answers 200 found the room active in the store, and the      *)
(* closedAt of a closed room is never written again.                       *)
C5_CloseOnce ==
    [][/\ (Replies /\ sent'.op = "close" /\ sent'.resp.status = 200)
             => rooms[sent'.id].status = "active"
       /\ \A id \in RoomIds :
             (rooms[id].status = "closed" /\ id \in DOMAIN rooms')
                => rooms'[id].closedAt = rooms[id].closedAt]_vars

(* C6: toggleVisibility, closeRoom and deleteRoom by a caller who is not   *)
(* the room's owner (every caller, for a room without owner) answer        *)
(* Forbidden (403) and leave rooms and questions unchanged.                *)
C6_NonOwnerForbidden ==
    [][\A op \in {"toggle", "close", "delete"}, u \in Users, id \in RoomIds :
          (Accepts(op, u, id) /\ rooms[id].lecturer # u)
             => /\ AnsweredAtOnce
                /\ sent'.resp.status = 403
                /\ rooms' = rooms
                /\ questions' = questions]_vars

(* C7: after a deleteRoom has answered success, the room is absent and no  *)
(* question carries its id, in that state and ever after.                  *)
C7_DeletedLeavesNothing ==
    \A id \in deletedOk :
        /\ id \notin RoomIds
        /\ \A k \in DOMAIN questions : questions[k].room # id

(* C8: of the deleteRoom calls on one room at most one answers success.    *)
C8_DeleteOnce ==
    [][(Replies /\ sent'.op = "delete" /\ sent'.resp.status = 200)
          => sent'.id \notin deletedOk]_vars

\* the names a createRoom request can ask for, after its trim
TrimmedRoomNames == {trim(n) : n \in RoomNameInputs}

DuplicateRoomName ==
    Response(400, "You already have a room with this name. Please choose a different name.", "")

\* this step accepts a createRoom of user for the (trimmed) name
CreateRoomAccepted(user, name) ==
    \/ AnsweredAtOnce /\ sent'.op = "create" /\ sent'.user = user
                      /\ sent'.doc.roomName = name
    \/ \E r \in Slots : GoesOn(r) /\ req'[r].op = "create" /\ req'[r].user = user
                                  /\ req'[r].doc.roomName = name

CreateRoomRejectedAsDuplicate ==
    AnsweredAtOnce /\ sent'.op = "create" /\ sent'.resp = DuplicateRoomName

(* C9 as stated: createRoom is rejected with DuplicateRoomName exactly     *)
(* when the owner has an active room with the trimmed name.                *)
C9_Original ==
    [][\A u \in Users, n \in TrimmedRoomNames :
          CreateRoomAccepted(u, n) =>
             (CreateRoomRejectedAsDuplicate <=>
                \E id \in RoomIds : /\ rooms[id].lecturer = u
                                    /\ rooms[id].roomName = n
                                    /\ rooms[id].status = "active")]_vars

(* C9 as amended: createRoom is rejected with DuplicateRoomName, creating  *)
(* no room, exactly when the owner already has a room, active or closed,   *)
(* whose name equals the trimmed requested name case-sensitively; a name   *)
(* that differs in case, or that only another owner's room carries, is not *)
(* rejected.                                                               *)
C9_DuplicateName ==
    [][\A u \in Users, n \in TrimmedRoomNames :
          CreateRoomAccepted(u, n) =>
             /\ CreateRoomRejectedAsDuplicate <=>
                   \E id \in RoomIds : rooms[id].lecturer = u /\ rooms[id].roomName = n
             /\ CreateRoomRejectedAsDuplicate => rooms' = rooms]_vars

\* a createRoom was just rejected although the owner's room of that name is closed
C9_Witness ==
    /\ sent.op = "create"
    /\ sent.resp = DuplicateRoomName
    /\ \E id \in RoomIds : /\ rooms[id].lecturer = sent.user
                           /\ rooms[id].roomName = sent.doc.roomName
    /\ \A id \in RoomIds :
          (rooms[id].lecturer = sent.user /\ rooms[id].roomName = sent.doc.roomName)
             => rooms[id].status = "closed"

\* the shape of the stored rooms
C10_EphemeralShape ==
    \A id \in RoomIds :
        /\ rooms[id].isOneTime <=> rooms[id].lecturer = Null
        /\ rooms[id].isOneTime <=> rooms[id].expiresAt # NoDate

\* the steps of POST /one-time that build and insert the room
C10_EphemeralCreate ==
    /\ \A r \in Slots :
          (req[r].op = "one-time" /\ req[r].pc = "gen" /\ req'[r].pc = "create")
             => /\ req'[r].doc.expiresAt = now + OneHourMs
                /\ req'[r].user = Null
    /\ (Replies /\ sent'.op = "one-time" /\ sent'.resp.status = 201)
          => /\ sent'.id \in DOMAIN rooms' \ RoomIds
             /\ rooms'[sent'.id] = sent'.doc
             /\ sent'.doc.status = "active"
             /\ sent'.doc.isOneTime
             /\ sent'.doc.lecturer = Null
             /\ \E r \in Slots : req[r].pc = "create" /\ sent'.doc = req[r].doc

(* C10: createEphemeralRoom takes no caller and creates an active room     *)
(* with isOneTime set, no lecturer and expiresAt one hour after the time   *)
(* the handler builds it; in every reachable state a room is ephemeral     *)
(* exactly when it has no lecturer and exactly when it has an expiresAt.   *)
C10_Ephemeral == [](C10_EphemeralShape) /\ [][C10_EphemeralCreate]_vars

\* an ephemeral room and an owned room are stored side by side
C10_Witness ==
    \E a \in RoomIds, b \in RoomIds :
        /\ rooms[a].isOneTime /\ rooms[a].expiresAt = OneHourMs
        /\ rooms[b].lecturer \in Users

-----------------------------------------------------------------------------
\* this step answers a join with success
JoinSucceeds == Replies /\ sent'.op = "join" /\ sent'.resp.status = 200

(* C11: studentsCount of a stored room never decreases, and every join     *)
(* that answers success adds exactly one to the stored count, so that the  *)
(* count equals the number of successful joins also when joins overlap.    *)
C11_JoinsCounted ==
    [][/\ \A id \in RoomIds \cap DOMAIN rooms' :
             rooms'[id].studentsCount >= rooms[id].studentsCount
       /\ JoinSucceeds =>
             rooms'[sent'.id].studentsCount = rooms[sent'.id].studentsCount + 1]_vars

-----------------------------------------------------------------------------
\* this step answers the question route op with success
QuestionDone(op) == Replies /\ sent'.op = op /\ sent'.resp.status = 200

NoTokenTwice(seq) == Len(seq) = Cardinality(Elems(seq))

-----------------------------------------------------------------------------
\* toggleUpvote applied twice with the same token gives back the upvotes
\* and the set of voters
ToggleTwiceRestores ==
    \A id \in QuestionIds, t \in Tokens :
        LET q == questions[id]
            once == Upvoted(q, t)
            twice == Upvoted(once, t)
        IN  /\ twice.upvotes = q.upvotes
            /\ Elems(twice.upvotedBy) = Elems(q.upvotedBy)
            /\ once.upvotes # q.upvotes
            /\ q.upvotes = 0 => once.upvotes = 1 /\ twice.upvotes = 0

\* a successful toggleUpvote takes the token out if it was in, and puts it
\* in if it was not
ToggleFlips ==
    QuestionDone("upvote") =>
        LET q == questions[sent'.id]
            after == questions'[sent'.id]
            t == sent'.user
        IN  IF t \in Elems(q.upvotedBy)
            THEN /\ Elems(after.upvotedBy) = Elems(q.upvotedBy) \ {t}
                 /\ after.upvotes = q.upvotes - 1
            ELSE /\ Elems(after.upvotedBy) = Elems(q.upvotedBy) \cup {t}
                 /\ after.upvotes = q.upvotes + 1

(* C13: two consecutive toggleUpvote calls with one token bring a question *)
(* back to its upvotes and its set of voters: the first call flips the     *)
(* token's membership and the second flips it back; from upvotes 0 the     *)
(* first call gives 1 and the second 0.                                    *)
C13_ToggleTwice == [](ToggleTwiceRestores) /\ [][ToggleFlips]_vars

\* a token has toggled twice on a question nobody else upvoted: 0, 1, 0
C13_Witness ==
    /\ sent.op = "upvote" /\ sent.resp.status = 200
    /\ sent.id \in QuestionIds
    /\ questions[sent.id].upvotedBy = <<>>
    /\ questions[sent.id].upvotes = 0

-----------------------------------------------------------------------------
StatusMoves ==
    {<<"pending", "approved">>, <<"pending", "answered">>,
     <<"approved", "answered">>, <<"pending", "rejected">>}

\* the status of a stored question stays or moves along StatusMoves
StatusMovesOnly ==
    \A id \in QuestionIds \cap DOMAIN questions' :
        \/ questions'[id].status = questions[id].status
        \/ <<questions[id].status, questions'[id].status>> \in StatusMoves

\* this step answers op, called by the owner of the question's room on a
\* stored question
OwnerCalls(op) ==
    /\ Replies /\ sent'.op = op
    /\ sent'.id \in QuestionIds
    /\ OwnsQuestion(questions[sent'.id], sent'.user)

\* what the owner's call of op does from the statuses in from: it succeeds
\* and moves the question to status to, and from any other status it fails
\* with InvalidTransition and changes nothing
OwnerMoves(op, from, to) ==
    OwnerCalls(op) =>
        IF questions[sent'.id].status \in from
        THEN /\ sent'.resp.status = 200
             /\ questions'[sent'.id].status = to
        ELSE /\ sent'.resp = InvalidTransition
             /\ questions' = questions

\* approve and markAnswered succeed for the owner alone
OwnerAlone ==
    (QuestionDone("approve") \/ QuestionDone("answer")) =>
        /\ sent'.id \in QuestionIds
        /\ OwnsQuestion(questions[sent'.id], sent'.user)

AnsweredAtStamped ==
    QuestionDone("answer") => questions'[sent'.id].answeredAt = now

(* C14: a question's status changes only along pending->approved,          *)
(* pending->answered, approved->answered and pending->rejected; approve by *)
(* the owner succeeds only from pending, markAnswered by the owner only    *)
(* from pending or approved and stamps answeredAt; from any other status   *)
(* either call fails with InvalidTransition and leaves the question as it  *)
(* was.                                                                    *)
C14_Transitions ==
    [][/\ StatusMovesOnly
       /\ OwnerMoves("approve", {"pending"}, "approved")
       /\ OwnerMoves("answer", {"pending", "approved"}, "answered")
       /\ OwnerAlone
       /\ AnsweredAtStamped]_vars

\* the owner's approve of an answered question has failed with
\* InvalidTransition
C14_Witness ==
    /\ sent.op = "approve" /\ sent.resp = InvalidTransition
    /\ sent.id \in QuestionIds
    /\ questions[sent.id].status = "answered"
    /\ questions[sent.id].answeredAt # NoDate

-----------------------------------------------------------------------------
\* this step answers a submit for a stored room
SubmitAnswered == Replies /\ sent'.op = "submit" /\ sent'.id \in RoomIds

ClosedOrPastExpiry(room) ==
    room.status = "closed" \/ (room.isOneTime /\ now > room.expiresAt)

\* this step stores exactly one new question, as submit creates it
OneQuestionCreated(room) ==
    /\ \A id \in QuestionIds : id \in DOMAIN questions' /\ questions'[id] = questions[id]
    /\ \E id \in DOMAIN questions' \ QuestionIds :
          /\ DOMAIN questions' = QuestionIds \cup {id}
          /\ questions'[id].room = room
          /\ questions'[id].status = "pending"
          /\ questions'[id].upvotes = 0
          /\ questions'[id].upvotedBy = <<>>
          /\ questions'[id].reportedBy = <<>>

(* C15: submit is rejected with RoomClosed and creates no question when    *)
(* the room is closed or is ephemeral and past its expiresAt; otherwise    *)
(* the question it creates is pending with upvotes 0 and empty upvotedBy   *)
(* and reportedBy.                                                         *)
C15_Submit ==
    [][SubmitAnswered =>
          IF ClosedOrPastExpiry(rooms[sent'.id])
          THEN /\ sent'.resp.message = "RoomClosed"
               /\ questions' = questions
          ELSE /\ sent'.resp.status = 201
               /\ OneQuestionCreated(sent'.id)]_vars

\* a submit to an ephemeral room past its expiresAt, still active, has
\* been rejected with RoomClosed
C15_Witness ==
    /\ sent.op = "submit" /\ sent.resp.message = "RoomClosed"
    /\ sent.id \in RoomIds
    /\ rooms[sent.id].isOneTime /\ rooms[sent.id].status = "active"
    /\ now > rooms[sent.id].expiresAt

-----------------------------------------------------------------------------
\* reportCount is the size of reportedBy, isReported says it is not 0
ReportsCounted ==
    \A id \in QuestionIds :
        /\ NoTokenTwice(questions[id].reportedBy)
        /\ questions[id].reportCount = Cardinality(Elems(questions[id].reportedBy))
        /\ questions[id].isReported <=> questions[id].reportCount >= 1

\* a successful report adds its token, or changes nothing if the token has
\* reported already; the status stays
ReportAddsOnce ==
    QuestionDone("report") =>
        LET q == questions[sent'.id]
            after == questions'[sent'.id]
            t == sent'.user
        IN  /\ after.status = q.status
            /\ IF t \in Elems(q.reportedBy)
               THEN /\ after.reportedBy = q.reportedBy
                    /\ after.reportCount = q.reportCount
               ELSE /\ Elems(after.reportedBy) = Elems(q.reportedBy) \cup {t}
                    /\ after.reportCount = q.reportCount + 1

(* C16: report is idempotent per voter token: a second report with the     *)
(* same token leaves reportedBy and reportCount unchanged; in every state  *)
(* reportCount is the size of reportedBy and isReported holds exactly when *)
(* reportCount >= 1; no report changes the question's status.              *)
C16_Report == [](ReportsCounted) /\ [][ReportAddsOnce]_vars

\* token t1 has reported again a question that t1 and then t2 had reported
C16_Witness ==
    /\ sent.op = "report" /\ sent.user = "t1" /\ sent.resp.status = 200
    /\ sent.id \in QuestionIds
    /\ questions[sent.id].reportedBy = <<"t1", "t2">>
    /\ questions[sent.id].reportCount = 2
    /\ questions[sent.id].isReported

-----------------------------------------------------------------------------
\* how many times connection c has received event e
Times(e, c) == Cardinality({i \in 1..Len(inbox[c]) : inbox[c][i] = e})

InFlight(e, c) == IF <<e, c>> \in flight THEN 1 ELSE 0

(* C17: an event published to a room code reaches each connection at most  *)
(* once, and only connections that were subscribed to that room when it    *)
(* was published: not one that subscribed later or had unsubscribed        *)
(* before, and not the subscribers of another room.                        *)
C17_Delivery ==
    /\ \A e \in 1..Len(published), c \in Connections :
          /\ Times(e, c) + InFlight(e, c) <= 1
          /\ Times(e, c) + InFlight(e, c) = 1 => c \in published[e].subscribers
    /\ \A c \in Connections : \A i \in 1..Len(inbox[c]) : inbox[c][i] \in 1..Len(published)
    /\ \A m \in flight : m[1] \in 1..Len(published)

\* a relayed event has reached its one subscriber, and a connection that
\* subscribed to the room after the publish has not got it
C17_Witness ==
    \E e \in 1..Len(published), c \in Connections, late \in Connections :
        /\ published[e].name = "room-status-changed"
        /\ Times(e, c) = 1
        /\ late \in subs[published[e].room] \ published[e].subscribers
        /\ Times(e, late) + InFlight(e, late) = 0

-----------------------------------------------------------------------------
\* the close handler is at work on room id
Closing(id) == \E r \in Slots : req[r].op = "close" /\ req[r].id = id

\* the events of this name published to a room code
PublishedTo(roomCode, name) ==
    {e \in 1..Len(published) : published[e].room = roomCode /\ published[e].name = name}

(* C18: every successful mutation causes exactly one publish of its event  *)
(* to the room, issued by the server after the change is committed, and a  *)
(* mutation that fails causes none; for PUT /:id/close: once the handler   *)
(* has closed a room and answered, exactly one room-status-changed event   *)
(* has been published to the room's code.                                  *)
C18_MutationPublished ==
    \A id \in RoomIds :
        rooms[id].status = "closed" /\ ~Closing(id) =>
            Cardinality(PublishedTo(rooms[id].roomCode, "room-status-changed")) = 1

-----------------------------------------------------------------------------
\* seq lists every question of the room once, and nothing else
ListsAll(seq, room) ==
    /\ Elems(seq) = QuestionsOf(room)
    /\ Len(seq) = Cardinality(QuestionsOf(room))

\* seq is in the order of the listing: upvotes falling, and among equal
\* upvotes createdAt rising
InListOrder(seq) ==
    \A i \in 1..Len(seq), j \in 1..Len(seq) :
        i < j =>
            \/ questions[seq[i]].upvotes > questions[seq[j]].upvotes
            \/ /\ questions[seq[i]].upvotes = questions[seq[j]].upvotes
               /\ questions[seq[i]].createdAt <= questions[seq[j]].createdAt

(* C19: listing a room's questions returns each of them once, sorted by    *)
(* upvotes descending and, among equal upvotes, by createdAt ascending.    *)
C19_ListSorted ==
    [][QuestionDone("list") =>
          /\ ListsAll(listed', sent'.id)
          /\ InListOrder(listed')]_vars

\* questions A, B, C created in this order with upvotes 2, 5, 2 have been
\* listed as B, A, C
C19_Witness ==
    /\ sent.op = "list" /\ sent.resp.status = 200
    /\ DOMAIN questions = {1, 2, 3}
    /\ \A k \in 1..3 : questions[k].room = sent.id
    /\ questions[1].upvotes = 2 /\ questions[2].upvotes = 5 /\ questions[3].upvotes = 2
    /\ questions[1].createdAt < questions[2].createdAt
    /\ questions[2].createdAt < questions[3].createdAt
    /\ listed = <<2, 1, 3>>

-----------------------------------------------------------------------------
CodeAlphabet ==
    {"A", "B", "C", "D", "E", "F", "G", "H", "I", "J", "K", "L", "M",
     "N", "O", "P", "Q", "R", "S", "T", "U", "V", "W", "X", "Y", "Z",
     "0", "1", "2", "3", "4", "5", "6", "7", "8", "9"}

WellFormedCode(roomCode) ==
    /\ Len(roomCode) = 6
    /\ \A i \in 1..Len(roomCode) : roomCode[i] \in CodeAlphabet

\* generateRoomCode has returned to the request on slot r
CodeReturned(r) == req[r].pc = "create"

\* the codes generateRoomCode has returned and the codes stored
CodesWellFormed ==
    /\ \A r \in Slots : CodeReturned(r) => WellFormedCode(req[r].doc.roomCode)
    /\ \A id \in RoomIds : WellFormedCode(rooms[id].roomCode)

\* generateRoomCode returns the code its last findOne looked for, and that
\* findOne found no room holding it
ReturnedAfterMiss ==
    \A r \in Slots :
        (req[r].pc = "gen" /\ req'[r].pc = "create") =>
            /\ req'[r].doc.roomCode = req[r].doc.roomCode
            /\ HeldByNoRoom(req[r].doc.roomCode)

(* C20: every code generateRoomCode returns, and so the code of every      *)
(* stored room, has length 6 with every character in A-Z or 0-9, and no    *)
(* room held it at the uniqueness check that let it through.               *)
C20_GeneratedCodes == [](CodesWellFormed) /\ [][ReturnedAfterMiss]_vars

\* generateRoomCode has returned a code that no room holds, to a request
\* made while another room is stored
C20_Witness ==
    \E r \in Slots, id \in RoomIds :
        /\ CodeReturned(r)
        /\ req[r].doc.roomCode # rooms[id].roomCode
        /\ HeldByNoRoom(req[r].doc.roomCode)

-----------------------------------------------------------------------------
\* input spells the code of the active room id, in capitals or in small
\* letters
Spells(input, id) ==
    /\ rooms[id].status = "active"
    /\ input \in {rooms[id].roomCode, ToLower(rooms[id].roomCode)}

\* a join with a code that spells an active room's code is admitted to
\* exactly that room
JoinFindsSpelled ==
    \A r \in Slots, input \in RoomCodeInputs, id \in RoomIds :
        (JoinRoomFind(r, input) /\ Spells(input, id)) =>
            /\ GoesOn(r)
            /\ req'[r].op = "join" /\ req'[r].id = id

\* this step answers the join on slot r, which the lookup had admitted
JoinAnswered(r) == req[r].pc = "save" /\ req[r].op = "join" /\ req'[r].pc = "idle"

\* the answer is the success with the summary of the room the lookup found
SummaryOf(r) ==
    /\ sent'.resp.status = 200
    /\ sent'.id = req[r].id
    /\ sent'.doc.roomName = rooms'[req[r].id].roomName
    /\ sent'.doc.roomCode = rooms'[req[r].id].roomCode
    /\ sent'.doc.lecturerName = rooms'[req[r].id].lecturerName
    /\ sent'.doc.questionsVisible = req[r].doc.questionsVisible
    /\ sent'.doc.status = req[r].doc.status

-----------------------------------------------------------------------------
(* C22: generateRoomCode always terminates: a request that is in its loop  *)
(* leaves the loop in the end, with an unused code under fair draws or,    *)
(* when the draws keep colliding, with CodeSpaceExhausted after a bounded  *)
(* number of retries.                                                      *)
C22_Terminates ==
    \A r \in Slots : (req[r].pc = "gen") ~> (req[r].pc # "gen")

-----------------------------------------------------------------------------
(* C23: in every reachable state no owner holds two rooms with the same    *)
(* trimmed name, also when two createRoom calls of one owner with one name *)
(* overlap between the existence check and the insert.                     *)
C23_OwnerNamesUnique ==
    \A a \in RoomIds, b \in RoomIds :
        (a # b /\ rooms[a].lecturer # Null /\ rooms[a].lecturer = rooms[b].lecturer)
            => trim(rooms[a].roomName) # trim(rooms[b].roomName)

-----------------------------------------------------------------------------
\* closedAt is set exactly on the closed rooms
ClosedAtWithClosed ==
    \A id \in RoomIds :
        /\ rooms[id].status \in {"active", "closed"}
        /\ rooms[id].status = "closed" <=> rooms[id].closedAt # NoDate

\* a room is active when it is stored, and a closed room stays closed
StatusMonotone ==
    /\ \A id \in DOMAIN rooms' \ RoomIds : rooms'[id].status = "active"
    /\ \A id \in RoomIds \cap DOMAIN rooms' :
          rooms[id].status = "closed" => rooms'[id].status = "closed"

\* this step is the save of a join or of a toggle-visibility
JoinOrToggleSaves ==
    \E r \in Slots :
        /\ req[r].pc = "save" /\ req[r].op \in {"join", "toggle"}
        /\ req'[r].pc = "idle"

StatusKept ==
    \A id \in RoomIds \cap DOMAIN rooms' :
        /\ rooms'[id].status = rooms[id].status
        /\ rooms'[id].closedAt = rooms[id].closedAt

(* C24: room status is monotone: every room starts active, no operation    *)
(* moves a closed room back to active, in every reachable state closedAt   *)
(* is set exactly when status is closed, and toggle-visibility and join    *)
(* never change status or closedAt.                                        *)
C24_StatusMonotone ==
    /\ [](ClosedAtWithClosed)
    /\ [][StatusMonotone /\ (JoinOrToggleSaves => StatusKept)]_vars

\* a join that had read the room as active has saved after the close, and
\* the room is still closed
C24_Witness ==
    /\ sent.op = "join" /\ sent.resp.status = 200
    /\ sent.doc.status = "active"
    /\ sent.id \in RoomIds
    /\ rooms[sent.id].status = "closed"
    /\ rooms[sent.id].closedAt # NoDate

-----------------------------------------------------------------------------
(* C25: a password-reset code is single-use: for one code stored by        *)
(* forgot-password at most one reset-password call succeeds in changing    *)
(* the password, also when two calls carrying the code overlap between     *)
(* the check of the code and its removal.                                  *)
C25_SingleUse == \A e \in Emails : resetsDone[e] <= 1

-----------------------------------------------------------------------------
\* this step answers the auth route op
AuthAnswered(op) == Replies /\ sent'.op = op

\* this step admits a reset-password request: its code checks have passed
ResetAdmitted(e) ==
    \E r \in Slots : areq[r].pc = "idle" /\ areq'[r].pc = "find" /\ areq'[r].email = e

\* verify-code leaves the password-reset entries alone and accepts none
VerifyKeepsResetEntries ==
    AuthAnswered("verify-code") =>
        \A e \in Emails :
            verificationCodes[e].type = "password-reset" =>
                /\ verificationCodes'[e] = verificationCodes[e]
                /\ sent'.user = e => sent'.resp.status # 200

\* reset-password accepts password-reset entries only
ResetTakesResetEntries ==
    \A e \in Emails : ResetAdmitted(e) => verificationCodes[e].type = "password-reset"

\* an answer that the code is wrong leaves the Map as it is
WrongCodeKeepsMap ==
    (Replies /\ sent'.resp.message \in {"Invalid verification code", "Invalid reset code"})
        => verificationCodes' = verificationCodes

(* C26: the entries of the verification-code Map are used for their own    *)
(* purpose only: verify-code never accepts or removes an entry of type     *)
(* password-reset, reset-password never accepts an entry stored by         *)
(* send-verification, and a failed attempt with a wrong, unexpired code    *)
(* leaves the Map unchanged.                                               *)
C26_OwnPurpose ==
    [][VerifyKeepsResetEntries /\ ResetTakesResetEntries /\ WrongCodeKeepsMap]_vars

====
